---- MODULE Spec2Model ----
(***************************************************************************)
(* MultiProfile backend (src/index.js): an Express application in front of *)
(* a Supabase store.  The model covers process start-up, POST /api/login,  *)
(* the authenticateToken middleware, GET /api/services, GET /api/version,  *)
(* GET /api/health, GET / and the final error middleware.  Every handler   *)
(* is cut at its awaits: one action per stretch of code that runs without  *)
(* suspension, so requests interleave exactly where the event loop lets    *)
(* them.                                                                   *)
(***************************************************************************)
EXTENDS Integers, Sequences, FiniteSets, TLC

(* ----------------------------- bounds ---------------------------------- *)
\* request objects alive at the same time
MaxReq == 2
\* uuids ever generated (each login that passes the password check takes one)
MaxUuids == 2
\* clock advances
MaxTicks == 1

\* one clock advance: eight days in ms, which takes a session past its expiry
TickMs == 8 * 24 * 60 * 60 * 1000

(* --------------------------- program constants -------------------------- *)
\* 7 * 24 * 60 * 60 * 1000, the session lifetime in ms
SevenDaysMs == 7 * 24 * 60 * 60 * 1000

VARIABLES
    env,        \* process.env: which of the three Supabase settings are set
    proc,       \* "boot" | "exited" | "crashed" | "listening"
    clients,    \* store clients created so far (supabase, supabaseAdmin)
    users,      \* table users
    sessions,   \* table user_sessions
    services,   \* table user_services
    versions,   \* table extension_versions
    now,        \* Date.now()
    ticks,      \* clock advances so far
    uuids,      \* uuids generated so far
    reqs        \* the request objects being served

vars == <<env, proc, clients, users, sessions, services, versions, now, ticks,
          uuids, reqs>>

store == <<users, sessions, services, versions>>

ReqIds == 1 .. MaxReq

(* ------------------------------ store rows ------------------------------ *)
\* bcrypt hash of a password: a salted one-way image, never the password
Hash(pw) == <<"$2a$10$", pw>>

NoUser == [id |-> 0, email |-> "", password_hash |-> <<>>, full_name |-> "",
           subscription_type |-> ""]

UserA == [id |-> 1, email |-> "a@x.com", password_hash |-> Hash("pwA"),
          full_name |-> "Ana", subscription_type |-> "free"]

UserB == [id |-> 2, email |-> "b@x.com", password_hash |-> Hash("pwB"),
          full_name |-> "Bia", subscription_type |-> "pro"]

UsersSeed == {UserA, UserB}

ServicesSeed ==
    { [id |-> 1, user_id |-> 1, is_active |-> TRUE,  created_at |-> 10],
      [id |-> 2, user_id |-> 1, is_active |-> TRUE,  created_at |-> 20],
      [id |-> 3, user_id |-> 1, is_active |-> FALSE, created_at |-> 30],
      [id |-> 4, user_id |-> 2, is_active |-> TRUE,  created_at |-> 15] }

VersionsSeed ==
    { [id |-> 1, version |-> "1.0.0", is_latest |-> FALSE],
      [id |-> 2, version |-> "1.1.0", is_latest |-> TRUE] }

\* the same tables with nothing to find: user 2 has no active service and no
\* version is marked latest
ServicesSparse ==
    { [id |-> 1, user_id |-> 1, is_active |-> TRUE,  created_at |-> 10],
      [id |-> 4, user_id |-> 2, is_active |-> FALSE, created_at |-> 15] }

VersionsNoLatest == { [id |-> 1, version |-> "1.0.0", is_latest |-> FALSE] }

NoSession == [user_id |-> 0, session_token |-> "", device_id |-> "",
              expires_at |-> 0, is_active |-> FALSE]

\* the values uuidv4() returns, in the order it returns them
UuidPool == <<"u1", "u2", "u3", "u4", "u5">>

\* uuidv4 handing out the same value every time
uuidRepeated == UuidPool[1]

uuidv4 == UuidPool[uuids + 1]

(* ----------------------------- requests --------------------------------- *)
NoHeader == [present |-> FALSE, text |-> <<>>]

\* a header value as sent: a sequence of words (runs without whitespace, each
\* one element) and of the whitespace characters between them
Header(text) == [present |-> TRUE, text |-> text]

NoRes == [status |-> 0, type |-> "none", body |-> [pending |-> TRUE]]

\* res.status(status).json(body)
Json(status, body) == [status |-> status, type |-> "json", body |-> body]

NoBody == [email |-> "", password |-> "", device_id |-> ""]

IdleReq == [kind |-> "none", pc |-> "idle", body |-> NoBody,
            authorization |-> NoHeader, user |-> NoUser, session |-> NoSession,
            validPassword |-> FALSE, sessionToken |-> "",
            payload |-> NoSession, calls |-> <<>>,
            nextCalled |-> FALSE, res |-> NoRes, sent |-> 0]

\* request bodies a client may post to /api/login ("" is a missing or empty field)
Body(email, password, device_id) ==
    [email |-> email, password |-> password, device_id |-> device_id]

LoginBodies ==
    { Body("", "pwA", ""), Body("a@x.com", "", "dev1"),
      Body("zz@x.com", "pwA", ""), Body("a@x.com", "pwB", ""),
      Body("a@x.com", "pwA", "dev1"),
      Body("b@x.com", "pwB", "") }

\* Authorization headers a client may send, as the parts split(' ') yields
Headers ==
    {NoHeader, Header(<<"Bearer">>), Header(<<"Bearer", " ", "forged">>),
     Header(<<"Bearer", "\t", UuidPool[1]>>),
     Header(<<"Bearer", " ", " ", UuidPool[1]>>)}
      \cup {Header(<<"Bearer", " ", UuidPool[i]>>) : i \in 1 .. MaxUuids}

(* --------------------------- store queries ------------------------------ *)
\* what one call to the store can do: answer, answer with an error, or throw
StoreOutcomes ==
    IF env.SUPABASE_SERVICE_ROLE_KEY THEN {"ok", "error", "throw"}
    ELSE {"error", "throw"}

\* .single(): exactly one row or an error
Single(rows) ==
    IF Cardinality(rows) = 1 THEN [rows |-> rows, error |-> FALSE]
    ELSE [rows |-> {}, error |-> TRUE]

Failed == [rows |-> {}, error |-> TRUE]

TheRow(result) == CHOOSE r \in result.rows : TRUE

(* ------------------------- code, as operators --------------------------- *)
\* start-up guard: if (!supabaseUrl || !supabaseKey) process.exit(1)
ConfigOk(e) == e.SUPABASE_URL /\ e.SUPABASE_ANON_KEY

\* authHeader && authHeader.split(' ')[1]; "" stands for undefined and for ''
\* String.prototype.split(' '): the pieces between single space characters
RECURSIVE Split(_)
Split(text) ==
    IF \A i \in 1 .. Len(text) : text[i] # " "
    THEN <<text>>
    ELSE LET i == CHOOSE k \in 1 .. Len(text) :
                     text[k] = " " /\ \A j \in 1 .. k - 1 : text[j] # " "
         IN  <<SubSeq(text, 1, i - 1)>> \o Split(SubSeq(text, i + 1, Len(text)))

\* a piece as a string: empty, one word, or a longer run kept as it is
Text(piece) ==
    IF piece = <<>> THEN "" ELSE IF Len(piece) = 1 THEN piece[1] ELSE piece

\* authHeader && authHeader.split(' ')[1]; "" stands for every falsy value
TokenOf(h) ==
    IF ~h.present THEN ""
    ELSE IF Len(Split(h.text)) >= 2 THEN Text(Split(h.text)[2]) ELSE ""

\* FindActiveSession without .eq('is_active', true)
FindSessionAnyFlag(token) ==
    Single({s \in sessions : s.session_token = token})

\* from('user_sessions').select('*, users(*)').eq('session_token', token)
\*   .eq('is_active', true).single()
FindActiveSession(token) ==
    Single({s \in sessions : s.session_token = token /\ s.is_active = TRUE})

\* JoinUser with the join key lost: some user row, not the owner's
JoinSomeUser(s) == CHOOSE u \in users : TRUE

\* the users(*) embedding of a session row
JoinUser(s) ==
    LET owner == {u \in users : u.id = s.user_id}
    IN  IF owner = {} THEN NoUser ELSE CHOOSE u \in owner : TRUE

\* MissingCredentials with the password test lost
MissingEmailOnly(body) == body.email = ""

\* if (!email || !password)
MissingCredentials(body) == body.email = "" \/ body.password = ""

\* from('users').select('*').eq('email', email).single()
FindUserByEmail(email) == Single({u \in users : u.email = email})

\* bcrypt.compare(password, user.password_hash)
Compare(password, hash) == Hash(password) = hash

\* new Date(Date.now() + 7 * 24 * 60 * 60 * 1000)
\* seven days counted in seconds, added to a time in milliseconds
ExpiresAtSeconds(t) == t + 7 * 24 * 60 * 60

ExpiresAt(t) == t + SevenDaysMs

\* the row login hands to insert()
NewSession(user, token, device_id, t) ==
    [user_id |-> user.id, session_token |-> token, device_id |-> device_id,
     expires_at |-> ExpiresAt(t), is_active |-> TRUE]

\* the stored row itself put into the response
LoginUserRaw(user) == user

\* the user object of the login response, lines 128-133
LoginUser(user) ==
    [id |-> user.id, email |-> user.email, full_name |-> user.full_name,
     subscription_type |-> user.subscription_type]

RECURSIVE OrderDesc(_)
\* .order('created_at', { ascending: false })
OrderDesc(rows) ==
    IF rows = {} THEN <<>>
    ELSE LET top == CHOOSE r \in rows :
                        \A q \in rows : q.created_at <= r.created_at
         IN  <<top>> \o OrderDesc(rows \ {top})

\* SelectServices without .eq('user_id', req.user.id)
SelectServicesOfAll(id) == OrderDesc({s \in services : s.is_active = TRUE})

\* from('user_services').select('*').eq('user_id', id).eq('is_active', true)
SelectServices(id) ==
    OrderDesc({s \in services : s.user_id = id /\ s.is_active = TRUE})

\* from('extension_versions').select('*').eq('is_latest', true).single()
FindLatestVersion == Single({v \in versions : v.is_latest = TRUE})

\* Insert as an upsert keyed by user_id: one session per user
InsertOnePerUser(table, row, outcome) ==
    IF outcome = "ok"
    THEN {s \in table : s.user_id # row.user_id} \cup {row}
    ELSE table

\* the store applies insert(row), or fails and leaves the table alone
\* an insert that also clears away the rows no longer active
InsertPruning(table, row, outcome) ==
    IF outcome = "ok"
    THEN {s \in table : s.is_active = TRUE} \cup {row}
    ELSE table

Insert(table, row, outcome) ==
    IF outcome = "ok" THEN table \cup {row} ELSE table

(* ------------------------------ responses ------------------------------- *)
\* MissingToken with a body of another shape
MissingTokenMessage == Json(401, [message |-> "Token de acesso necessário"])
MissingToken == Json(401, [error |-> "Token de acesso necessário"])
InvalidOrExpired == Json(403, [error |-> "Token inválido ou expirado"])
InvalidToken == Json(403, [error |-> "Token inválido"])
MissingFields == Json(400, [error |-> "Email e senha são obrigatórios"])
\* UnknownUser telling the caller that the account does not exist
UnknownUserTold == Json(404, [error |-> "Usuário não encontrado"])
UnknownUser == Json(401, [error |-> "Credenciais inválidas"])
WrongPassword == Json(401, [error |-> "Credenciais inválidas"])
SessionNotCreated == Json(500, [error |-> "Erro ao criar sessão"])
ServicesFailed == Json(500, [error |-> "Erro ao buscar serviços"])
VersionFailed == Json(500, [error |-> "Erro ao buscar versão"])
InternalError == Json(500, [error |-> "Erro interno do servidor"])
LoginOk(token, user) ==
    Json(200, [success |-> TRUE, token |-> token, user |-> LoginUser(user)])
ServicesOk(rows) == Json(200, [success |-> TRUE, services |-> rows])
VersionOk(v) == Json(200, [success |-> TRUE, version |-> v])
RootOk ==
    Json(200, [message |-> "MultiProfile Backend API", version |-> "1.0.0",
               status |-> "online"])
HealthOk(t) == Json(200, [status |-> "healthy", timestamp |-> t, uptime |-> t])

\* InsertReply with the sessionError test lost
InsertReplyUnchecked(q, outcome) ==
    CASE outcome = "ok" -> LoginOk(q.sessionToken, q.user)
      [] outcome = "error" -> LoginOk(q.sessionToken, q.user)
      [] outcome = "throw" -> InternalError

\* what login answers once the insert has come back
InsertReply(q, outcome) ==
    CASE outcome = "ok" -> LoginOk(q.sessionToken, q.user)
      [] outcome = "error" -> SessionNotCreated
      [] outcome = "throw" -> InternalError

(* -------------------------------- Init ---------------------------------- *)
Init ==
    /\ env \in [SUPABASE_URL : BOOLEAN, SUPABASE_ANON_KEY : BOOLEAN,
                SUPABASE_SERVICE_ROLE_KEY : BOOLEAN]
    /\ proc = "boot"
    /\ clients = {}
    /\ users = UsersSeed
    /\ sessions = {}
    /\ services = ServicesSeed
    /\ versions = VersionsSeed
    /\ now = 0
    /\ ticks = 0
    /\ uuids = 0
    /\ reqs = [r \in ReqIds |-> IdleReq]

\* the process started against the sparse tables
InitSparse ==
    /\ env \in [SUPABASE_URL : BOOLEAN, SUPABASE_ANON_KEY : BOOLEAN,
                SUPABASE_SERVICE_ROLE_KEY : BOOLEAN]
    /\ proc = "boot"
    /\ clients = {}
    /\ users = UsersSeed
    /\ sessions = {}
    /\ services = ServicesSparse
    /\ versions = VersionsNoLatest
    /\ now = 0
    /\ ticks = 0
    /\ uuids = 0
    /\ reqs = [r \in ReqIds |-> IdleReq]

(* ------------------------------ start-up -------------------------------- *)
\* The module body of src/index.js up to app.listen.  createClient is library
\* code: handed an undefined key it either throws, which ends the process
\* before app.listen, or returns a client.
Startup ==
    /\ proc = "boot"
    /\ IF ~ConfigOk(env)
       THEN proc' = "exited" /\ clients' = {}
       ELSE IF env.SUPABASE_SERVICE_ROLE_KEY
       THEN proc' = "listening" /\ clients' = {"supabase", "supabaseAdmin"}
       ELSE \/ proc' = "crashed" /\ clients' = {"supabase"}
            \/ proc' = "listening" /\ clients' = {"supabase", "supabaseAdmin"}
    /\ UNCHANGED <<env, store, now, ticks, uuids, reqs>>

(* -------------------------- request plumbing ---------------------------- *)
\* a slot is free once its request has been answered; a new request takes
\* the lowest free slot (which slot holds a request object means nothing)
Answered(r) == reqs[r].pc \in {"idle", "done"}

Free(r) ==
    /\ proc = "listening"
    /\ Answered(r)
    /\ \A q \in ReqIds : q < r => ~Answered(q)

At(r, kind, pc) == reqs[r].kind = kind /\ reqs[r].pc = pc

Set(r, rec) == reqs' = [reqs EXCEPT ![r] = rec]

\* a response is written and the handler returns
Respond(q, res) == [q EXCEPT !.pc = "done", !.res = res, !.sent = @ + 1]

\* a query is handed to the store client; the handler awaits it
Call(q, what) ==
    [q EXCEPT !.calls = Append(@, [op |-> what, outcome |-> "pending"])]

\* the awaited query comes back
Answer(q, outcome) == [q EXCEPT !.calls[Len(q.calls)].outcome = outcome]

\* login requests that may still ask for a uuid
PendingLogins ==
    {r \in ReqIds : reqs[r].kind = "login" /\ reqs[r].pc \in {"lookup", "compare"}}

(* ---------------------------- POST /api/login --------------------------- *)
\* LoginStart with the return after the 400 answer lost: the handler goes on
LoginStartNoReturn(r, body) ==
    /\ Free(r)
    /\ uuids + Cardinality(PendingLogins) < MaxUuids
    /\ LET q == [IdleReq EXCEPT !.kind = "login", !.body = body]
           go == Call([q EXCEPT !.pc = "lookup"], "users.select")
       IN  IF MissingCredentials(body)
           THEN Set(r, [go EXCEPT !.res = MissingFields, !.sent = @ + 1])
           ELSE Set(r, go)
    /\ UNCHANGED <<env, proc, clients, store, now, ticks, uuids>>

\* the handler up to its first await: validation, then the user query is issued
LoginStart(r, body) ==
    /\ Free(r)
    /\ uuids + Cardinality(PendingLogins) < MaxUuids
    /\ LET q == [IdleReq EXCEPT !.kind = "login", !.body = body]
       IN  IF MissingCredentials(body)
           THEN Set(r, Respond(q, MissingFields))
           ELSE Set(r, Call([q EXCEPT !.pc = "lookup"], "users.select"))
    /\ UNCHANGED <<env, proc, clients, store, now, ticks, uuids>>

\* the user query answers; on a user, bcrypt.compare is awaited
LoginLookup(r) ==
    /\ At(r, "login", "lookup")
    /\ \E outcome \in StoreOutcomes :
         LET q == Answer(reqs[r], outcome)
             found == IF outcome = "ok" THEN FindUserByEmail(q.body.email)
                      ELSE Failed
         IN  IF outcome = "throw"
             THEN Set(r, Respond(q, InternalError))
             ELSE IF found.error \/ found.rows = {}
             THEN Set(r, Respond(q, UnknownUser))
             ELSE Set(r, [q EXCEPT !.pc = "compare", !.user = TheRow(found)])
    /\ UNCHANGED <<env, proc, clients, store, now, ticks, uuids>>

\* bcrypt answers; on a match the token and expiry are made and the insert issued
LoginCompare(r) ==
    /\ At(r, "login", "compare")
    /\ LET q == reqs[r]
           valid == Compare(q.body.password, q.user.password_hash)
       IN  IF ~valid
           THEN /\ Set(r, Respond([q EXCEPT !.validPassword = FALSE],
                                  WrongPassword))
                /\ uuids' = uuids
           ELSE /\ Set(r, Call([q EXCEPT !.pc = "insert",
                                         !.validPassword = TRUE,
                                         !.sessionToken = uuidv4,
                                         !.payload =
                                            NewSession(q.user, uuidv4,
                                                       q.body.device_id, now)],
                               "user_sessions.insert"))
                /\ uuids' = uuids + 1
    /\ UNCHANGED <<env, proc, clients, store, now, ticks>>

\* the insert answers
LoginInsert(r) ==
    /\ At(r, "login", "insert")
    /\ \E outcome \in StoreOutcomes :
         LET q == Answer(reqs[r], outcome)
         IN  /\ sessions' = Insert(sessions, q.payload, outcome)
             /\ Set(r, Respond(q, InsertReply(q, outcome)))
    /\ UNCHANGED <<env, proc, clients, users, services, versions, now, ticks,
                   uuids>>

(* ------------------- authenticateToken, GET /api/services --------------- *)
\* ServicesStart with the route registered without authenticateToken
ServicesStartUngated(r, header) ==
    /\ Free(r)
    /\ Set(r, Call([IdleReq EXCEPT !.kind = "services", !.pc = "query",
                                   !.authorization = header],
                   "user_services.select"))
    /\ UNCHANGED <<env, proc, clients, store, now, ticks, uuids>>

\* authenticateToken up to its await: the token is taken from the header
ServicesStart(r, header) ==
    /\ Free(r)
    /\ LET q == [IdleReq EXCEPT !.kind = "services", !.authorization = header]
       IN  IF TokenOf(header) = ""
           THEN Set(r, Respond(q, MissingToken))
           ELSE Set(r, Call([q EXCEPT !.pc = "auth"], "user_sessions.select"))
    /\ UNCHANGED <<env, proc, clients, store, now, ticks, uuids>>

\* the session query answers; on a session next() runs the handler, which
\* issues the services query
\* Authenticate with a sliding expiry: a successful check rewrites the row
AuthenticateRefreshing(r) ==
    /\ At(r, "services", "auth")
    /\ \E outcome \in StoreOutcomes :
         LET q == Answer(reqs[r], outcome)
             found == IF outcome = "ok"
                      THEN FindActiveSession(TokenOf(q.authorization))
                      ELSE Failed
         IN  IF outcome = "throw"
             THEN Set(r, Respond(q, InvalidToken)) /\ sessions' = sessions
             ELSE IF found.error \/ found.rows = {}
             THEN Set(r, Respond(q, InvalidOrExpired)) /\ sessions' = sessions
             ELSE /\ Set(r, Call([q EXCEPT !.pc = "query",
                                           !.user = JoinUser(TheRow(found)),
                                           !.session = TheRow(found),
                                           !.nextCalled = TRUE],
                                 "user_services.select"))
                  /\ sessions' =
                       (sessions \ {TheRow(found)})
                         \cup {[TheRow(found) EXCEPT
                                  !.expires_at = ExpiresAt(now)]}
    /\ UNCHANGED <<env, proc, clients, users, services, versions, now, ticks,
                   uuids>>

Authenticate(r) ==
    /\ At(r, "services", "auth")
    /\ \E outcome \in StoreOutcomes :
         LET q == Answer(reqs[r], outcome)
             found == IF outcome = "ok"
                      THEN FindActiveSession(TokenOf(q.authorization))
                      ELSE Failed
         IN  IF outcome = "throw"
             THEN Set(r, Respond(q, InvalidToken))
             ELSE IF found.error \/ found.rows = {}
             THEN Set(r, Respond(q, InvalidOrExpired))
             ELSE Set(r, Call([q EXCEPT !.pc = "query",
                                        !.user = JoinUser(TheRow(found)),
                                        !.session = TheRow(found),
                                        !.nextCalled = TRUE],
                              "user_services.select"))
    /\ UNCHANGED <<env, proc, clients, store, now, ticks, uuids>>

\* the services query answers
ServicesQuery(r) ==
    /\ At(r, "services", "query")
    /\ \E outcome \in StoreOutcomes :
         LET q == Answer(reqs[r], outcome)
         IN  CASE outcome = "ok" ->
                    Set(r, Respond(q, ServicesOk(SelectServices(q.user.id))))
               [] outcome = "error" -> Set(r, Respond(q, ServicesFailed))
               [] outcome = "throw" -> Set(r, Respond(q, InternalError))
    /\ UNCHANGED <<env, proc, clients, store, now, ticks, uuids>>

(* ---------------------------- GET /api/version -------------------------- *)
VersionStart(r) ==
    /\ Free(r)
    /\ Set(r, Call([IdleReq EXCEPT !.kind = "version", !.pc = "query"],
                   "extension_versions.select"))
    /\ UNCHANGED <<env, proc, clients, store, now, ticks, uuids>>

VersionQuery(r) ==
    /\ At(r, "version", "query")
    /\ \E outcome \in StoreOutcomes :
         LET q == Answer(reqs[r], outcome)
             found == IF outcome = "ok" THEN FindLatestVersion ELSE Failed
         IN  IF outcome = "throw"
             THEN Set(r, Respond(q, InternalError))
             ELSE IF found.error
             THEN Set(r, Respond(q, VersionFailed))
             ELSE Set(r, Respond(q, VersionOk(TheRow(found))))
    /\ UNCHANGED <<env, proc, clients, store, now, ticks, uuids>>

(* ------------------------ GET /, GET /api/health ------------------------ *)
Root(r) ==
    /\ Free(r)
    /\ Set(r, Respond([IdleReq EXCEPT !.kind = "root"], RootOk))
    /\ UNCHANGED <<env, proc, clients, store, now, ticks, uuids>>

Health(r) ==
    /\ Free(r)
    /\ Set(r, Respond([IdleReq EXCEPT !.kind = "health"], HealthOk(now)))
    /\ UNCHANGED <<env, proc, clients, store, now, ticks, uuids>>

(* ---------------------------- error middleware -------------------------- *)
\* express.json() rejects a body that is not JSON; the error goes to the
\* final middleware and no route handler runs
ErrorMiddleware(r) ==
    /\ Free(r)
    /\ Set(r, Respond([IdleReq EXCEPT !.kind = "malformed"], InternalError))
    /\ UNCHANGED <<env, proc, clients, store, now, ticks, uuids>>

(* ------------------------------ environment ----------------------------- *)
\* time passes
Tick ==
    /\ proc = "listening"
    /\ ticks < MaxTicks
    /\ ticks' = ticks + 1
    /\ now' = now + TickMs
    /\ UNCHANGED <<env, proc, clients, store, uuids, reqs>>

\* a session is invalidated in the store: its active flag is set to false
Deactivate(s) ==
    /\ proc = "listening"
    /\ s \in sessions
    /\ s.is_active = TRUE
    /\ sessions' = (sessions \ {s}) \cup {[s EXCEPT !.is_active = FALSE]}
    /\ UNCHANGED <<env, proc, clients, users, services, versions, now, ticks,
                   uuids, reqs>>

Next ==
    \/ Startup
    \/ \E r \in ReqIds, body \in LoginBodies : LoginStart(r, body)
    \/ \E r \in ReqIds : LoginLookup(r)
    \/ \E r \in ReqIds : LoginCompare(r)
    \/ \E r \in ReqIds : LoginInsert(r)
    \/ \E r \in ReqIds, header \in Headers : ServicesStart(r, header)
    \/ \E r \in ReqIds : Authenticate(r)
    \/ \E r \in ReqIds : ServicesQuery(r)
    \/ \E r \in ReqIds : VersionStart(r)
    \/ \E r \in ReqIds : VersionQuery(r)
    \/ \E r \in ReqIds : Root(r)
    \/ \E r \in ReqIds : Health(r)
    \/ \E r \in ReqIds : ErrorMiddleware(r)
    \/ Tick
    \/ \E s \in sessions : Deactivate(s)

Spec == Init /\ [][Next]_vars

SpecSparse == InitSparse /\ [][Next]_vars

\* every awaited call comes back and the event loop runs its continuation
Fairness ==
    \A r \in ReqIds :
       /\ WF_vars(LoginLookup(r))
       /\ WF_vars(LoginCompare(r))
       /\ WF_vars(LoginInsert(r))
       /\ WF_vars(Authenticate(r))
       /\ WF_vars(ServicesQuery(r))
       /\ WF_vars(VersionQuery(r))

FairSpec == Spec /\ Fairness

(* ============================ properties =============================== *)
Token(q) == TokenOf(q.authorization)

Expired(token) ==
    \E s \in sessions : s.session_token = token /\ s.expires_at < now

Inactive(token) ==
    \E s \in sessions : s.session_token = token /\ s.is_active = FALSE

Active(token) ==
    \E s \in sessions : s.session_token = token /\ s.is_active = TRUE

Done(q, kind) == q.kind = kind /\ q.pc = "done"

LoggedIn(q) == Done(q, "login") /\ q.res.status = 200

Ops(q) == {q.calls[i].op : i \in DOMAIN q.calls}

(* ------------------------------------------------------------------------ *)
\* C1: a protected request carrying the token of a session whose expires_at
\* is earlier than the current time is rejected by authenticateToken (next()
\* is not called, no user is attached), even when the session is active.
C1_ExpiredSessionRejected ==
    [][\A r \in ReqIds :
          At(r, "services", "auth") /\ Expired(Token(reqs[r]))
            => /\ ~reqs'[r].nextCalled
               /\ reqs'[r].user = NoUser]_vars

(* ------------------------------------------------------------------------ *)
\* C2: once a session's is_active flag is false, an authenticateToken call
\* that presents its token ends with 403 and never calls next(), whatever
\* the session's expires_at is.
C2_InactiveSessionRejected ==
    [][\A r \in ReqIds :
          /\ At(r, "services", "auth")
          /\ Inactive(Token(reqs[r]))
          /\ reqs'[r] # reqs[r]
          => /\ reqs'[r].pc = "done"
             /\ reqs'[r].res.status = 403
             /\ ~reqs'[r].nextCalled]_vars

\* a request was turned away with 403 and its token is that of an inactive
\* session that has not expired
C2_Witness ==
    \E r \in ReqIds :
       /\ Done(reqs[r], "services")
       /\ reqs[r].res = InvalidOrExpired
       /\ reqs[r].calls[1].outcome = "ok"
       /\ \E s \in sessions :
             /\ s.session_token = Token(reqs[r])
             /\ s.is_active = FALSE
             /\ s.expires_at > now

(* ------------------------------------------------------------------------ *)
\* C3: after a login for user U has returned token T, an authenticateToken
\* call with Bearer T whose store query is answered, with the session
\* unchanged, calls next() and attaches the user whose id the login returned.
C3_LoginTokenResolvesToSameUser ==
    [][\A r, l \in ReqIds :
          /\ At(r, "services", "auth")
          /\ LoggedIn(reqs[l])
          /\ reqs[l].res.body.token = Token(reqs[r])
          /\ Active(Token(reqs[r]))
          /\ reqs'[r] # reqs[r]
          /\ reqs'[r].calls[1].outcome = "ok"
          => /\ reqs'[r].nextCalled
             /\ reqs'[r].user.id = reqs[l].res.body.user.id
             /\ reqs'[r].session.session_token = reqs[l].res.body.token]_vars

\* a login answer and a request that authenticated with its token
C3_Witness ==
    \E r, l \in ReqIds :
       /\ LoggedIn(reqs[l])
       /\ reqs[r].kind = "services"
       /\ reqs[r].nextCalled
       /\ Token(reqs[r]) = reqs[l].res.body.token
       /\ reqs[r].user.id = reqs[l].res.body.user.id
       /\ reqs[r].user.id = 2

(* ------------------------------------------------------------------------ *)
\* C4: GET /api/services answered for a token of a session owned by A
\* returns only rows whose user_id is A's id.
C4_OnlyOwnRows ==
    \A r \in ReqIds :
       Done(reqs[r], "services") /\ reqs[r].res.status = 200
         => \A s \in sessions :
               s.session_token = Token(reqs[r])
                 => \A i \in DOMAIN reqs[r].res.body.services :
                       reqs[r].res.body.services[i].user_id = s.user_id

\* rows were returned to one user while another user owns active rows too
C4_Witness ==
    \E r \in ReqIds :
       /\ Done(reqs[r], "services")
       /\ reqs[r].res.status = 200
       /\ Len(reqs[r].res.body.services) = 2
       /\ \E s \in sessions :
             s.session_token = Token(reqs[r]) /\ s.user_id = 1
       /\ \E row \in services : row.user_id = 2 /\ row.is_active = TRUE

(* ------------------------------------------------------------------------ *)
\* C5: a login for an email no user has and a login for an existing user
\* with a password that does not match the stored hash get the same answer,
\* status 401 with the same body, and neither asks for a session insert.
AskedFor(q) ==
    /\ Done(q, "login")
    /\ ~MissingCredentials(q.body)
    /\ q.calls[1].outcome # "throw"

NoSuchUser(q) ==
    AskedFor(q) /\ ~\E u \in users : u.email = q.body.email

BadPassword(q) ==
    /\ AskedFor(q)
    /\ \E u \in users :
          u.email = q.body.email /\ Hash(q.body.password) # u.password_hash

NoAuthHeader(q) == Done(q, "services") /\ ~q.authorization.present

ForeignToken(q) ==
    /\ Done(q, "services")
    /\ Token(q) # ""
    /\ ~q.nextCalled
    /\ q.calls[1].outcome = "ok"

C6_SameStatusAndShape ==
    \A r1, r2 \in ReqIds :
       NoAuthHeader(reqs[r1]) /\ ForeignToken(reqs[r2])
         => /\ reqs[r1].res.status = reqs[r2].res.status
            /\ DOMAIN reqs[r1].res.body = DOMAIN reqs[r2].res.body

\* C6, amended: the two requests get the same response shape, a body with
\* the single field error, with status 401 for the missing header and 403
\* for the token that matches no active session.
C6_SameShapeStatus401And403 ==
    \A r1, r2 \in ReqIds :
       NoAuthHeader(reqs[r1]) /\ ForeignToken(reqs[r2])
         => /\ reqs[r1].res.status = 401
            /\ reqs[r2].res.status = 403
            /\ DOMAIN reqs[r1].res.body = {"error"}
            /\ DOMAIN reqs[r2].res.body = {"error"}

\* both requests have been answered, the second with a token nobody issued
C6_Witness ==
    \E r1, r2 \in ReqIds :
       /\ NoAuthHeader(reqs[r1])
       /\ ForeignToken(reqs[r2])
       /\ Token(reqs[r2]) = "forged"

(* ------------------------------------------------------------------------ *)
\* C7: GET /api/services and GET /api/version issue their store query only
\* after authenticateToken has succeeded for the same request; a request
\* whose authentication did not succeed causes no resource query and gets
\* no resource data.
ResourceOps == {"user_services.select", "extension_versions.select"}

AskedResource(q) == Ops(q) \cap ResourceOps # {}

GotResource(q) ==
    q.res.status = 200 /\ DOMAIN q.res.body \cap {"services", "version"} # {}

AuthSucceeded(q) ==
    /\ q.nextCalled
    /\ q.calls[1] = [op |-> "user_sessions.select", outcome |-> "ok"]
    /\ q.user \in users
    /\ q.session.session_token = Token(q)

C7_ResourceOnlyAfterAuth ==
    \A r \in ReqIds :
       reqs[r].kind \in {"services", "version"}
         => /\ AskedResource(reqs[r]) => AuthSucceeded(reqs[r])
            /\ ~AuthSucceeded(reqs[r]) => ~GotResource(reqs[r])

\* C7, amended: GET /api/services issues its store query only after
\* authenticateToken has succeeded for the same request, and a services
\* request whose authentication did not succeed causes no resource query
\* and gets no resource data; GET /api/version runs no authenticator and
\* queries the store for every request.
C7_ServicesOnlyAfterAuth ==
    \A r \in ReqIds :
       /\ reqs[r].kind = "services"
            => /\ AskedResource(reqs[r]) => AuthSucceeded(reqs[r])
               /\ ~AuthSucceeded(reqs[r]) => ~GotResource(reqs[r])
       /\ reqs[r].kind = "version"
            => /\ ~reqs[r].nextCalled
               /\ Ops(reqs[r]) = {"extension_versions.select"}

\* one services request was turned away without a resource query, another
\* was served after authentication
C7_Witness ==
    \E r1, r2 \in ReqIds :
       /\ Done(reqs[r1], "services")
       /\ reqs[r1].res.status = 403
       /\ Ops(reqs[r1]) = {"user_sessions.select"}
       /\ Done(reqs[r2], "services")
       /\ GotResource(reqs[r2])
       /\ AuthSucceeded(reqs[r2])

(* ------------------------------------------------------------------------ *)
\* C8: every step of a login request either answers 200 with a token T and
\* adds exactly one session row, with session_token T and owned by the
\* matched user, or leaves the session table as it is; a login that ends
\* otherwise ends with 400, 401 or 500 and no token.  A failed insert is
\* answered with 500 and the insert is issued once only.
Inserts(q) ==
    Cardinality({i \in DOMAIN q.calls : q.calls[i].op = "user_sessions.insert"})

FailedInsert(q) ==
    \E i \in DOMAIN q.calls :
       /\ q.calls[i].op = "user_sessions.insert"
       /\ q.calls[i].outcome \in {"error", "throw"}

C8_LoginStep(new) ==
    IF LoggedIn(new)
    THEN \E row \in sessions' :
            /\ row \notin sessions
            /\ sessions' = sessions \cup {row}
            /\ row.session_token = new.res.body.token
            /\ row.user_id = new.res.body.user.id
            /\ \E u \in users :
                  /\ u.email = new.body.email
                  /\ u.password_hash = Hash(new.body.password)
                  /\ u.id = row.user_id
            /\ ~FailedInsert(new)
    ELSE /\ sessions' = sessions
         /\ new.pc = "done"
              => /\ new.res.status \in {400, 401, 500}
                 /\ "token" \notin DOMAIN new.res.body
         /\ FailedInsert(new) => new.pc = "done" /\ new.res.status = 500

C8_LoginAllOrNothing ==
    [][\A r \in ReqIds :
          reqs'[r] # reqs[r] /\ reqs'[r].kind = "login"
            => /\ C8_LoginStep(reqs'[r])
               /\ Inserts(reqs'[r]) <= 1]_vars

\* one login has succeeded and its row is stored; another was refused by
\* the store at the insert and its token is in no row
C8_Witness ==
    \E r1, r2 \in ReqIds :
       /\ LoggedIn(reqs[r1])
       /\ \E s \in sessions : s.session_token = reqs[r1].res.body.token
       /\ Done(reqs[r2], "login")
       /\ reqs[r2].res = SessionNotCreated
       /\ reqs[r2].sessionToken # ""
       /\ ~\E s \in sessions : s.session_token = reqs[r2].sessionToken

(* ------------------------------------------------------------------------ *)
\* C9: a login request whose email or password is missing or empty is
\* answered with 400 before any store access: no user lookup, no password
\* comparison, no session insert.
C9_MissingFieldsBeforeStore ==
    \A r \in ReqIds :
       reqs[r].kind = "login"
         /\ (reqs[r].body.email = "" \/ reqs[r].body.password = "")
         => /\ reqs[r].pc = "done"
            /\ reqs[r].res.status = 400
            /\ DOMAIN reqs[r].res.body = {"error"}
            /\ reqs[r].calls = <<>>
            /\ reqs[r].user = NoUser
            /\ reqs[r].sessionToken = ""
            /\ reqs[r].payload = NoSession

\* a login naming an existing user without a password has been refused
C9_Witness ==
    \E r \in ReqIds :
       /\ Done(reqs[r], "login")
       /\ reqs[r].body.email = "a@x.com"
       /\ reqs[r].body.password = ""
       /\ reqs[r].res = MissingFields

(* ------------------------------------------------------------------------ *)
\* C10: whenever the store URL, SUPABASE_ANON_KEY or
\* SUPABASE_SERVICE_ROLE_KEY is missing, the process exits before it creates
\* a store client or listens, and no request is served.
C10_RefusesToStart ==
    ~(env.SUPABASE_URL /\ env.SUPABASE_ANON_KEY
        /\ env.SUPABASE_SERVICE_ROLE_KEY)
      => /\ proc \in {"boot", "exited"}
         /\ clients = {}
         /\ \A r \in ReqIds : reqs[r] = IdleReq

(* ------------------------------------------------------------------------ *)
\* C11: logins for one user are independent under every interleaving: each
\* login that succeeds adds its own session row and no login step removes,
\* replaces or deactivates a row another login created, so the logins that
\* have succeeded for a user each have their own row.
RowOf(q) ==
    {s \in sessions : /\ s.session_token = q.res.body.token
                      /\ s.user_id = q.res.body.user.id}

C11_OwnRows ==
    /\ \A r \in ReqIds : LoggedIn(reqs[r]) => Cardinality(RowOf(reqs[r])) = 1
    /\ \A r1, r2 \in ReqIds :
          r1 # r2 /\ LoggedIn(reqs[r1]) /\ LoggedIn(reqs[r2])
            => RowOf(reqs[r1]) # RowOf(reqs[r2])

C11_ConcurrentLoginsIndependent ==
    /\ []C11_OwnRows
    /\ [][\A r \in ReqIds :
             reqs'[r] # reqs[r] /\ reqs'[r].kind = "login"
               => /\ sessions \subseteq sessions'
                  /\ Cardinality(sessions') =
                       Cardinality(sessions)
                         + (IF LoggedIn(reqs'[r]) THEN 1 ELSE 0)]_vars

\* two logins of the same user overlap: the first has taken its token and
\* still awaits its insert while the second, started later, has stored its row
C11_Witness ==
    \E r1, r2 \in ReqIds :
       /\ At(r1, "login", "insert")
       /\ reqs[r1].sessionToken = "u1"
       /\ LoggedIn(reqs[r2])
       /\ reqs[r2].res.body.token = "u2"
       /\ reqs[r1].user = reqs[r2].user
       /\ RowOf(reqs[r2]) # {}

(* ------------------------------------------------------------------------ *)
\* C12: no two session rows share a session_token, and a token resolves
\* through authenticateToken to at most one user, the owner of its row.
C12_TokensUnique ==
    /\ \A s1, s2 \in sessions :
          s1.session_token = s2.session_token => s1 = s2
    /\ \A r1, r2 \in ReqIds :
          /\ reqs[r1].nextCalled /\ reqs[r2].nextCalled
          /\ Token(reqs[r1]) = Token(reqs[r2])
          => reqs[r1].user = reqs[r2].user
    /\ \A r \in ReqIds :
          reqs[r].nextCalled
            => \A s \in sessions :
                  s.session_token = Token(reqs[r])
                    => s.user_id = reqs[r].user.id

\* two users hold a session each and each token has resolved to its owner
C12_Witness ==
    \E r1, r2 \in ReqIds :
       /\ reqs[r1].nextCalled /\ reqs[r2].nextCalled
       /\ Token(reqs[r1]) # Token(reqs[r2])
       /\ reqs[r1].user.id = 1 /\ reqs[r2].user.id = 2
       /\ Cardinality(sessions) = 2

(* ------------------------------------------------------------------------ *)
\* C13: when the store answers a resource query and no row matches (no
\* active service of the user, no latest version), the handler answers with
\* success, an empty sequence or an empty record, not with an error status.
LastOutcome(q) == q.calls[Len(q.calls)].outcome

NoServiceRows(q) ==
    /\ Done(q, "services")
    /\ q.nextCalled
    /\ LastOutcome(q) = "ok"
    /\ ~\E row \in services : row.user_id = q.user.id /\ row.is_active = TRUE

NoVersionRow(q) ==
    /\ Done(q, "version")
    /\ LastOutcome(q) = "ok"
    /\ ~\E v \in versions : v.is_latest = TRUE

C13_AbsenceIsNotAnError ==
    \A r \in ReqIds :
       /\ NoServiceRows(reqs[r])
            => reqs[r].res = Json(200, [success |-> TRUE, services |-> <<>>])
       /\ NoVersionRow(reqs[r])
            => reqs[r].res.status = 200 /\ reqs[r].res.body.success = TRUE

(* ------------------------------------------------------------------------ *)
\* C14: every request, on every path of its handler, is eventually answered,
\* exactly once and with a JSON body, provided every awaited call comes back.
InFlight(r) == reqs[r].pc \notin {"idle", "done"}

C14_OneJsonAnswer ==
    \A r \in ReqIds :
       /\ InFlight(r) => reqs[r].sent = 0 /\ reqs[r].res = NoRes
       /\ reqs[r].pc = "done"
            => /\ reqs[r].sent = 1
               /\ reqs[r].res.type = "json"
               /\ reqs[r].res.status \in {200, 400, 401, 403, 500}

C14_EveryRequestAnsweredOnce ==
    /\ []C14_OneJsonAnswer
    /\ \A r \in ReqIds : InFlight(r) ~> (reqs[r].pc = "done")

\* a request that threw inside authenticateToken and a login whose insert
\* threw have both been answered
C14_Witness ==
    \E r1, r2 \in ReqIds :
       /\ Done(reqs[r1], "services") /\ reqs[r1].res = InvalidToken
       /\ Done(reqs[r2], "login") /\ reqs[r2].res = InternalError
       /\ Len(reqs[r2].calls) = 2
       /\ reqs[r1].sent = 1 /\ reqs[r2].sent = 1

(* ------------------------------------------------------------------------ *)
\* C15: the user object of a successful login response has exactly the fields
\* id, email, full_name and subscription_type, with the matched user's values;
\* no login response, successful or not, carries the password hash or any
\* other stored field of a user row.
LoginMessages ==
    {MissingFields.body.error, UnknownUser.body.error, WrongPassword.body.error,
     SessionNotCreated.body.error, InternalError.body.error}

Sanitized(q) ==
    /\ DOMAIN q.res.body = {"success", "token", "user"}
    /\ DOMAIN q.res.body.user = {"id", "email", "full_name", "subscription_type"}
    /\ \E u \in users :
          /\ u.email = q.body.email
          /\ \A f \in DOMAIN q.res.body.user : q.res.body.user[f] = u[f]

C15_LoginResponseSanitized ==
    \A r \in ReqIds :
       Done(reqs[r], "login")
         => IF reqs[r].res.status = 200
            THEN Sanitized(reqs[r])
            ELSE /\ DOMAIN reqs[r].res.body = {"error"}
                 /\ reqs[r].res.body.error \in LoginMessages

\* one login has succeeded for the second user, another was refused after the
\* user row had been read
C15_Witness ==
    \E r1, r2 \in ReqIds :
       /\ LoggedIn(reqs[r1]) /\ reqs[r1].res.body.user.id = 2
       /\ Done(reqs[r2], "login") /\ reqs[r2].res = WrongPassword
       /\ reqs[r2].user = UserA

(* ------------------------------------------------------------------------ *)
\* C16: the session row a login builds has expires_at equal to the time of
\* issuance plus 604800000 ms and is_active = TRUE, whatever the request body
\* holds, and the row that reaches the table is that row unchanged.
Issued(r) == reqs[r].pc = "compare" /\ reqs'[r].pc = "insert"

Stored(r) == reqs[r].pc = "insert" /\ reqs'[r].pc = "done"

C16_IssueStep ==
    \A r \in ReqIds :
       /\ Issued(r)
            => /\ reqs'[r].payload.expires_at = now + 604800000
               /\ reqs'[r].payload.is_active = TRUE
               /\ reqs'[r].payload.device_id = reqs[r].body.device_id
       /\ Stored(r) => sessions' \ sessions \subseteq {reqs[r].payload}

C16_NewRows ==
    \A s \in sessions' :
       (\A old \in sessions : old.session_token # s.session_token)
         => /\ s.is_active = TRUE
            /\ \E r \in ReqIds : Stored(r) /\ s = reqs[r].payload

C16_ExpiryFixedAtSevenDays == [][C16_IssueStep /\ C16_NewRows]_vars

\* two rows, one issued at time 0 with a device id and one issued after the
\* clock moved, without one
C16_Witness ==
    \E s1, s2 \in sessions :
       /\ s1.device_id = "dev1" /\ s1.expires_at = 604800000
       /\ s2.device_id = "" /\ s2.expires_at = TickMs + 604800000
       /\ s1.is_active /\ s2.is_active

(* ------------------------------------------------------------------------ *)
\* C17: authenticateToken takes the second whitespace-delimited part of the
\* Authorization header as the token; a request whose header is absent or has
\* no second part is answered 401 without a store query and without next().
Words(h) == SelectSeq(h.text, LAMBDA a : a \notin {" ", "\t"})

C17_SecondWhitespacePart ==
    \A r \in ReqIds :
       reqs[r].kind = "services" /\ reqs[r].pc # "idle"
         => IF Len(Words(reqs[r].authorization)) >= 2
            THEN /\ Token(reqs[r]) = Words(reqs[r].authorization)[2]
                 /\ reqs[r].calls # <<>>
            ELSE /\ reqs[r].res = MissingToken
                 /\ reqs[r].calls = <<>>
                 /\ ~reqs[r].nextCalled

(* ------------------------------------------------------------------------ *)
\* C18: an authentication check only reads: when it succeeds the request
\* carries the user and the session row found and next() is called, when it
\* fails next() is not called, and in both cases every session row and every
\* user row is left as it was.
AuthStep(r) ==
    /\ reqs'[r] # reqs[r]
    /\ reqs'[r].kind = "services"
    /\ reqs[r].pc # "query"

C18_CheckStep ==
    \A r \in ReqIds :
       AuthStep(r)
         => /\ sessions' = sessions
            /\ users' = users
            /\ reqs'[r].pc = "query"
                 => /\ reqs'[r].nextCalled
                    /\ reqs'[r].session \in sessions
                    /\ reqs'[r].session.session_token = Token(reqs'[r])
                    /\ reqs'[r].user \in users
                    /\ reqs'[r].user.id = reqs'[r].session.user_id
            /\ reqs'[r].pc = "done"
                 => /\ ~reqs'[r].nextCalled
                    /\ reqs'[r].res.status \in {401, 403}

C18_AuthenticationReadOnly == [][C18_CheckStep]_vars

\* after the clock has moved, one check has succeeded on a stored session and
\* another has failed at the store lookup, with the rows still as issued
C18_Witness ==
    \E r1, r2 \in ReqIds :
       /\ reqs[r1].kind = "services" /\ reqs[r1].nextCalled
       /\ reqs[r1].session \in sessions
       /\ reqs[r1].session.expires_at = 604800000
       /\ now = TickMs
       /\ Done(reqs[r2], "services") /\ reqs[r2].res = InvalidOrExpired
       /\ reqs[r2].calls # <<>>

(* ------------------------------------------------------------------------ *)
\* C19: no operation of the service (login, authenticate, list services, get
\* version, health, root) modifies a user row or deletes or rewrites a session
\* row; the session table only grows, and only by the row of a login that is
\* answered 200 in that step.
Operation == reqs' # reqs

C19_Frame ==
    Operation
      => /\ users' = users
         /\ sessions \subseteq sessions'
         /\ sessions' # sessions
              => \E r \in ReqIds :
                    /\ At(r, "login", "insert")
                    /\ LoggedIn(reqs'[r])
                    /\ sessions' = sessions \cup {reqs[r].payload}

C19_RowsOnlyAddedByLogin == [][C19_Frame]_vars

\* a row made inactive is still in the table, unchanged, after a later login
\* has added its own row and a services request has been answered
C19_Witness ==
    \E s1, s2 \in sessions :
       /\ s1.is_active = FALSE /\ s2.is_active = TRUE
       /\ s1.session_token = "u1" /\ s2.session_token = "u2"
       /\ \E r \in ReqIds : LoggedIn(reqs[r]) /\ reqs[r].res.body.token = "u2"
       /\ \E r \in ReqIds : Done(reqs[r], "services") /\ reqs[r].calls # <<>>

====
